---- MODULE Spec2Model ----
\* HermesClient (hermes-client.ts): connection lifecycle, searches and
\* structured-output extraction.  The repository carries two versions of the
\* client: the fallback-capable one (connect() absorbs failures into
\* fallbackMode) and the strict one (connect() raises, searches need a handle).
\* Every async method is cut at its awaits: one action per stretch of code that
\* runs without suspension, so that calls on one client interleave as they can
\* in the single-threaded event loop.
EXTENDS Integers, Sequences, FiniteSets, TLC

\* ---------------------------------------------------------------- bounds
NumTasks == 2
MaxCalls == 3

Null == 0

VARIABLES
  variant,       \* which version of the client class this instance is
  endpoint,      \* HERMES_MCP_URL as loaded at start-up: well-formed or not
  mcpClient,     \* this.mcpClient: Null or the handle createMCPClient returned
  fallbackMode,  \* this.fallbackMode
  created,       \* handles the tool provider has handed out so far
  closeCalls,    \* per handle: how many times close() was invoked on it
  lastLifecycle, \* the lifecycle call that last changed or returned
  calls,         \* method calls started so far
  task,          \* the method calls in flight
  last,          \* the method call that ended in the last step, if one did
  xin,           \* extraction on its own: the final text and the schema given
  xout,          \* extraction on its own: the outcome, once computed
  request,       \* HTTP handler: the request being served
  hpc,           \* HTTP handler: where handler() stands
  seen,          \* HTTP handler: how the client calls it awaited ended
  response,      \* HTTP handler: the Response objects it built, in order
  server         \* HTTP server: requests handled at once, each with its client

vars == <<variant, endpoint, mcpClient, fallbackMode, created, closeCalls,
          lastLifecycle, calls, task, last, xin, xout, request, hpc, seen,
          response, server>>

\* What the methods of the client never touch.
aside == <<xin, xout, request, hpc, seen, response, server>>

Tasks == 1..NumTasks
Handles == 1..MaxCalls

Variants == {"fallback", "strict"}
Endpoints == {"valid", "badurl"}

\* ----------------------------------------------------------- client state
\* The mode the code acts on: the fallback flag selects the knowledge-only
\* prompt and switches the tool lookup off.
currentMode == IF fallbackMode THEN "DEGRADED" ELSE "CONNECTED"

IdleTask ==
  [op |-> "none", pc |-> "idle", h |-> Null, ext |-> "none",
   startMode |-> "none", startHandle |-> Null,
   prev |-> "none",
   ret |-> "none", err |-> "none", retMode |-> "none", retHandle |-> Null,
   closes |-> 0, stage |-> "none", schema |-> "none", tools |-> "none",
   sys |-> [prompt |-> "none", json |-> FALSE], runs |-> 0, listed |-> 0,
   val |-> [k |-> "none"], errText |-> << >>, text |-> << >>,
   late |-> FALSE]

\* A method call starts on the first free slot (which slot holds a call makes
\* no difference to the client).
Free(t) == /\ task[t].pc = "idle"
           /\ \A u \in Tasks : u < t => task[u].pc # "idle"
           /\ calls < MaxCalls

\* Call t goes on as rec.  A call that ends in this step frees its slot, and
\* last shows it as its caller sees it end.
Step(t, rec) ==
  /\ task' = [task EXCEPT ![t] = IF rec.pc = "done" THEN IdleTask ELSE rec]
  /\ last' = IF rec.pc = "done" THEN rec ELSE IdleTask

\* A call of method o starts.  What disconnect() finds when it starts (the
\* handle held, the lifecycle call before it) is kept with the call.
Begin(t, o) ==
  IF o = "disconnect"
  THEN [IdleTask EXCEPT !.op = o, !.startMode = currentMode,
                        !.startHandle = mcpClient, !.prev = lastLifecycle]
  ELSE [IdleTask EXCEPT !.op = o, !.startMode = currentMode]

\* The call returns normally (r = "returned") or raises e (r = "raised"); the
\* client state its caller finds is recorded with it.
Finish(rec, r, e, handle, flag) ==
  [rec EXCEPT !.pc = "done", !.ret = r, !.err = e,
              !.retMode = IF flag THEN "DEGRADED" ELSE "CONNECTED",
              !.retHandle = handle]

\* Nothing to extract, nothing extracted, no request.
NoInput == [text |-> << >>, schema |-> "none"]
NoOutcome == [ok |-> FALSE, val |-> [t |-> "null"], err |-> "pending",
              errText |-> << >>]
NoRequest == [method |-> "none", pathname |-> "none", q |-> "none"]
NoServer == [client |-> << >>, req |-> << >>, created |-> 0, maker |-> << >>,
             closer |-> << >>]

Init ==
  /\ variant \in Variants
  /\ endpoint \in Endpoints
  /\ mcpClient = Null
  /\ fallbackMode = FALSE
  /\ created = 0
  /\ closeCalls = [h \in Handles |-> 0]
  /\ lastLifecycle = "none"
  /\ calls = 0
  /\ task = [t \in Tasks |-> IdleTask]
  /\ last = IdleTask
  /\ xin = NoInput
  /\ xout = NoOutcome
  /\ request = NoRequest
  /\ hpc = "none"
  /\ seen = << >>
  /\ response = << >>
  /\ server = NoServer

\* ---------------------------------------------------------------- connect
\* createMCPClient resolves with a handle or rejects.
SessionOutcomes == {"ok", "network", "handshake"}

\* What the catch block of connect() does with failure o: the fallback-capable
\* client sets the flag and returns, the strict client raises; neither
\* touches this.mcpClient.
ConnectFailed(rec, o) ==
  IF variant = "fallback"
  THEN [flag |-> TRUE, handle |-> mcpClient,
        rec |-> Finish([rec EXCEPT !.ext = o], "returned", "none", mcpClient, TRUE)]
  ELSE [flag |-> fallbackMode, handle |-> mcpClient,
        rec |-> Finish([rec EXCEPT !.ext = o], "raised", "ConnectFailed",
                       mcpClient, fallbackMode)]

\* connect() up to its await of createMCPClient, or through its catch block
\* when new URL(HERMES_MCP_URL) throws on a malformed endpoint.
ConnectCall(t) ==
  /\ Free(t)
  /\ calls' = calls + 1
  /\ IF endpoint = "valid"
     THEN /\ Step(t, [Begin(t, "connect") EXCEPT !.pc = "awaitSession"])
          /\ UNCHANGED <<mcpClient, fallbackMode>>
     ELSE LET f == ConnectFailed(Begin(t, "connect"), endpoint) IN
          /\ fallbackMode' = f.flag
          /\ mcpClient' = f.handle
          /\ Step(t, f.rec)
  /\ lastLifecycle' = "connect"
  /\ UNCHANGED aside
  /\ UNCHANGED <<variant, endpoint, created, closeCalls>>

\* A connect() that clears the fallback flag when the session is established.
FlagAfterSessionCleared == FALSE

\* this.fallbackMode once the try block of connect() has stored the handle:
\* the block does not assign it.
FlagAfterSession == fallbackMode

\* createMCPClient settles: the handle is stored, or the catch block runs.
ConnectSettle(t) ==
  /\ task[t].op = "connect"
  /\ task[t].pc = "awaitSession"
  /\ \E o \in SessionOutcomes :
       IF o = "ok"
       THEN /\ created' = created + 1
            /\ mcpClient' = created + 1
            /\ Step(t, Finish([task[t] EXCEPT !.ext = o, !.h = created + 1],
                               "returned", "none", created + 1,
                               FlagAfterSession))
            /\ fallbackMode' = FlagAfterSession
       ELSE LET f == ConnectFailed(task[t], o) IN
            /\ fallbackMode' = f.flag
            /\ mcpClient' = f.handle
            /\ Step(t, f.rec)
            /\ UNCHANGED created
  /\ lastLifecycle' = "connect"
  /\ UNCHANGED aside
  /\ UNCHANGED <<variant, endpoint, closeCalls, calls>>

\* ------------------------------------------------------------- disconnect
CloseOutcomes == {"ok", "fail"}

\* disconnect() up to await this.mcpClient.close(), or to its end when there
\* is no handle.
DisconnectCall(t) ==
  /\ Free(t)
  /\ calls' = calls + 1
  /\ IF mcpClient # Null
     THEN /\ closeCalls' = [closeCalls EXCEPT ![mcpClient] = @ + 1]
          /\ Step(t, [Begin(t, "disconnect") EXCEPT !.pc = "awaitClose",
                                                    !.h = mcpClient, !.closes = 1])
          /\ UNCHANGED lastLifecycle
     ELSE /\ Step(t, Finish(Begin(t, "disconnect"), "returned", "none",
                            mcpClient, fallbackMode))
          /\ lastLifecycle' = "disconnect"
          /\ UNCHANGED closeCalls
  /\ UNCHANGED aside
  /\ UNCHANGED <<variant, endpoint, mcpClient, fallbackMode, created>>

\* A disconnect() without its catch block.
DisconnectAfterCloseUncaught(o) ==
  IF o = "ok"
  THEN [handle |-> Null, ret |-> "returned", err |-> "none"]
  ELSE [handle |-> mcpClient, ret |-> "raised", err |-> "CloseFailed"]

\* What disconnect() does once close() has settled with outcome o: the handle
\* it leaves in this.mcpClient and how it ends.
DisconnectAfterClose(o) ==
  IF o = "ok"
  THEN [handle |-> Null, ret |-> "returned", err |-> "none"]
  ELSE [handle |-> mcpClient, ret |-> "returned", err |-> "none"]

DisconnectSettle(t) ==
  /\ task[t].op = "disconnect"
  /\ task[t].pc = "awaitClose"
  /\ \E o \in CloseOutcomes :
       LET d == DisconnectAfterClose(o) IN
       /\ mcpClient' = d.handle
       /\ Step(t, Finish([task[t] EXCEPT !.ext = o], d.ret, d.err, d.handle,
                          fallbackMode))
  /\ lastLifecycle' = "disconnect"
  /\ UNCHANGED aside
  /\ UNCHANGED <<variant, endpoint, fallbackMode, created, closeCalls, calls>>

\* ------------------------------------------------------------------ texts
\* A text is a sequence of lexical tokens: punctuation, string literals,
\* number literals, bare words, white space and the three-backtick fence.
P(x) == [k |-> "punct", v |-> x]
S(x) == [k |-> "str", v |-> x]
N(x) == [k |-> "num", v |-> x]
W(x) == [k |-> "word", v |-> x]
SP == [k |-> "ws", v |-> " "]
NL == [k |-> "ws", v |-> "\n"]
FENCE == [k |-> "fence", v |-> "fence"]

IsWs(tok) == tok.k = "ws"

RECURSIVE TrimStart(_)
TrimStart(s) == IF s # << >> /\ IsWs(s[1]) THEN TrimStart(Tail(s)) ELSE s

RECURSIVE TrimEnd(_)
TrimEnd(s) ==
  IF s # << >> /\ IsWs(s[Len(s)]) THEN TrimEnd(SubSeq(s, 1, Len(s) - 1)) ELSE s

\* String.prototype.trim
Trim(s) == TrimEnd(TrimStart(s))

\* jsonText.startsWith(fence + "json") and jsonText.startsWith(fence)
StartsWithFence(s) == s # << >> /\ s[1] = FENCE
StartsWithJsonFence(s) == Len(s) >= 2 /\ s[1] = FENCE /\ s[2] = W("json")

\* .replace(/\s*fence$/, ""): a fence that ends the text goes, with the white
\* space before it; a text that does not end in a fence is left as it is.
StripClosingFence(s) ==
  IF s # << >> /\ s[Len(s)] = FENCE THEN TrimEnd(SubSeq(s, 1, Len(s) - 1)) ELSE s

\* .replace(/^fence json\s*/, "") and .replace(/^fence\s*/, "")
StripJsonOpening(s) == TrimStart(SubSeq(s, 3, Len(s)))
StripOpening(s) == TrimStart(Tail(s))

\* The markdown unwrapping of the strict client's searchWithStructuredOutput.
StripFences(responseText) ==
  LET jsonText == Trim(responseText) IN
  IF StartsWithJsonFence(jsonText)
  THEN StripClosingFence(StripJsonOpening(jsonText))
  ELSE IF StartsWithFence(jsonText)
       THEN StripClosingFence(StripOpening(jsonText))
       ELSE jsonText

\* ------------------------------------------------------------------- JSON
JStr(x) == [t |-> "str", s |-> x]
JNum(x) == [t |-> "num", n |-> x]
JBool(x) == [t |-> "bool", b |-> x]
JNull == [t |-> "null"]
JArr(a) == [t |-> "arr", a |-> a]
JObj(o) == [t |-> "obj", o |-> o]

NoFields == [key \in {} |-> JNull]

ParseOk(v, rest) == [ok |-> TRUE, val |-> v, rest |-> rest]
ParseFail == [ok |-> FALSE, val |-> JNull, rest |-> << >>]

\* JSON.parse: a recursive-descent parser over the tokens.  Of an object's
\* duplicate keys the last one wins.
RECURSIVE ParseValue(_)
RECURSIVE ParseMembers(_, _)
RECURSIVE ParseElements(_, _)

ParseValue(ts) ==
  LET s == TrimStart(ts) IN
  IF s = << >> THEN ParseFail
  ELSE IF s[1].k = "str" THEN ParseOk(JStr(s[1].v), Tail(s))
  ELSE IF s[1].k = "num" THEN ParseOk(JNum(s[1].v), Tail(s))
  ELSE IF s[1] = W("true") THEN ParseOk(JBool(TRUE), Tail(s))
  ELSE IF s[1] = W("false") THEN ParseOk(JBool(FALSE), Tail(s))
  ELSE IF s[1] = W("null") THEN ParseOk(JNull, Tail(s))
  ELSE IF s[1] = P("{")
       THEN LET r == TrimStart(Tail(s)) IN
            IF r # << >> /\ r[1] = P("}")
            THEN ParseOk(JObj(NoFields), Tail(r))
            ELSE ParseMembers(r, NoFields)
  ELSE IF s[1] = P("[")
       THEN LET r == TrimStart(Tail(s)) IN
            IF r # << >> /\ r[1] = P("]")
            THEN ParseOk(JArr(<< >>), Tail(r))
            ELSE ParseElements(r, << >>)
  ELSE ParseFail

\* The members of an object after "{" or ",": "key" : value, then "," or "}".
ParseMembers(ts, acc) ==
  LET s == TrimStart(ts) IN
  IF s = << >> \/ s[1].k # "str" THEN ParseFail
  ELSE LET c == TrimStart(Tail(s)) IN
       IF c = << >> \/ c[1] # P(":") THEN ParseFail
       ELSE LET v == ParseValue(Tail(c)) IN
            IF ~v.ok THEN ParseFail
            ELSE LET r == TrimStart(v.rest)
                     obj == [key \in (DOMAIN acc) \cup {s[1].v} |->
                               IF key = s[1].v THEN v.val ELSE acc[key]]
                 IN IF r = << >> THEN ParseFail
                    ELSE IF r[1] = P("}") THEN ParseOk(JObj(obj), Tail(r))
                    ELSE IF r[1] = P(",") THEN ParseMembers(Tail(r), obj)
                    ELSE ParseFail

\* The elements of an array after "[" or ",": value, then "," or "]".
ParseElements(ts, acc) ==
  LET v == ParseValue(ts) IN
  IF ~v.ok THEN ParseFail
  ELSE LET r == TrimStart(v.rest) IN
       IF r = << >> THEN ParseFail
       ELSE IF r[1] = P("]") THEN ParseOk(JArr(Append(acc, v.val)), Tail(r))
       ELSE IF r[1] = P(",") THEN ParseElements(Tail(r), Append(acc, v.val))
       ELSE ParseFail

JSONParse(text) ==
  LET r == ParseValue(text) IN
  IF r.ok /\ TrimStart(r.rest) = << >>
  THEN [ok |-> TRUE, val |-> r.val]
  ELSE [ok |-> FALSE, val |-> JNull]

\* ---------------------------------------------------------------- schemas
\* The schemas as the fallback-capable client declares them; the strict
\* client declares the same response schemas over a BrandSchema and a
\* BusinessCategorySchema with more optional keys.
\* zod descriptors as data.  z.object() without .strict() drops the keys it
\* does not list from its output; a listed key may be absent only if optional.
ZLiteral(x) == [t |-> "literal", value |-> x]
ZString == [t |-> "string"]
ZNumber == [t |-> "number"]
ZBoolean == [t |-> "boolean"]
ZArray(e) == [t |-> "array", elem |-> e]
ZObject(f) == [t |-> "object", fields |-> f]
Req(s) == [s |-> s, opt |-> FALSE]
Opt(s) == [s |-> s, opt |-> TRUE]

AgenticAISearchResponseSchema ==
  ZObject([object |-> Req(ZLiteral("ai_search")),
           query |-> Req(ZString),
           latitude |-> Opt(ZNumber),
           longitude |-> Opt(ZNumber),
           message |-> Req(ZString),
           error |-> Opt(ZBoolean)])

AreaSchema ==
  ZObject([uuid |-> Req(ZString),
           object |-> Req(ZLiteral("area")),
           primary_name |-> Req(ZString),
           region |-> Req(ZString),
           bbox_xmin |-> Req(ZNumber),
           bbox_xmax |-> Req(ZNumber),
           bbox_ymin |-> Req(ZNumber),
           bbox_ymax |-> Req(ZNumber),
           zip_code |-> Opt(ZString)])

BrandSchema ==
  ZObject([key |-> Req(ZString),
           name |-> Req(ZString),
           business_category_ids |-> Opt(ZArray(ZString)),
           object |-> Req(ZLiteral("brand"))])

BusinessCategorySchema ==
  ZObject([key |-> Req(ZString),
           en |-> Req(ZString),
           path |-> Req(ZString),
           object |-> Req(ZLiteral("business_category"))])

LegacyAISearchResponseSchema ==
  ZObject([object |-> Req(ZLiteral("ai_search")),
           areas |-> Req(ZArray(AreaSchema)),
           geographies |-> Req(ZArray(AreaSchema)),
           brands |-> Req(ZArray(BrandSchema)),
           business_categories |-> Req(ZArray(BusinessCategorySchema))])

SchemaNames == {"agentic", "legacy"}

\* A schema of the caller's own, handed to searchWithCustomSchema: an object
\* whose one field is optional.
LenientSchema == ZObject([message |-> Opt(ZString)])

SchemaOf(name) ==
  IF name = "agentic" THEN AgenticAISearchResponseSchema
  ELSE IF name = "lenient" THEN LenientSchema
  ELSE LegacyAISearchResponseSchema

\* schema.safeParse(v).success
RECURSIVE ZodAccepts(_, _)
ZodAccepts(z, v) ==
  IF z.t = "literal" THEN v.t = "str" /\ v.s = z.value
  ELSE IF z.t = "string" THEN v.t = "str"
  ELSE IF z.t = "number" THEN v.t = "num"
  ELSE IF z.t = "boolean" THEN v.t = "bool"
  ELSE IF z.t = "array"
       THEN v.t = "arr" /\ \A i \in 1..Len(v.a) : ZodAccepts(z.elem, v.a[i])
  ELSE /\ v.t = "obj"
       /\ \A key \in DOMAIN z.fields :
            IF key \in DOMAIN v.o
            THEN ZodAccepts(z.fields[key].s, v.o[key])
            ELSE z.fields[key].opt

\* The value schema.parse(v) returns when it accepts v.
RECURSIVE ZodOutput(_, _)
ZodOutput(z, v) ==
  IF z.t = "array"
  THEN JArr([i \in 1..Len(v.a) |-> ZodOutput(z.elem, v.a[i])])
  ELSE IF z.t = "object"
       THEN JObj([key \in (DOMAIN v.o) \cap (DOMAIN z.fields) |->
                    ZodOutput(z.fields[key].s, v.o[key])])
       ELSE v

\* schema.parse(v): the stripped value, or a ZodError.
ZodParse(z, v) ==
  IF ZodAccepts(z, v)
  THEN [ok |-> TRUE, val |-> ZodOutput(z, v)]
  ELSE [ok |-> FALSE, val |-> JNull]

\* ------------------------------------------------------------- extraction
\* result.text || "{}"
EmptyObjectText == <<P("{"), P("}")>>

\* The final text used as it is, empty or not.
ResponseTextAsIs(text) == text

ResponseText(text) == IF text = << >> THEN EmptyObjectText ELSE text

\* The text handed to JSON.parse: the strict client unwraps a markdown code
\* block first, the fallback-capable client parses the text as it is.
JsonText(responseText) ==
  IF variant = "strict" THEN StripFences(responseText) ELSE responseText

\* An inner try block that returns the parsed value as it is.
ValidatedUnchecked(z, parsed) == [ok |-> TRUE, val |-> parsed]

\* What the inner try block returns for a parsed value.
Validated(z, parsed) == ZodParse(z, parsed)

\* An error message built from the text left after the unwrapping.
ErrorTextStripped(responseText, jsonText) == jsonText

\* The text the error message quotes: "Invalid JSON response: " + responseText.
ErrorText(responseText, jsonText) == responseText

\* The inner try/catch of searchWithStructuredOutput: JSON.parse, then
\* responseSchema.parse; either failure becomes Error("Invalid JSON response:
\* " + responseText).
Extract(text, z) ==
  LET responseText == ResponseText(text)
      jsonText == JsonText(responseText)
      parsed == JSONParse(jsonText)
      checked == IF parsed.ok THEN Validated(z, parsed.val)
                 ELSE [ok |-> FALSE, val |-> JNull]
  IN IF checked.ok
     THEN [ok |-> TRUE, val |-> checked.val, err |-> "none", errText |-> << >>]
     ELSE [ok |-> FALSE, val |-> JNull, err |-> "InvalidJSONResponse",
           errText |-> ErrorText(responseText, jsonText)]

\* ------------------------------------------------- generative-service texts
EmptyArr(key) == <<S(key), P(":"), P("["), P("]")>>
Pair(key, lit) == <<S(key), P(":"), S(lit)>>

LegacyEmptyText ==
  <<P("{")>> \o Pair("object", "ai_search") \o <<P(",")>> \o EmptyArr("areas")
    \o <<P(",")>> \o EmptyArr("geographies") \o <<P(",")>> \o EmptyArr("brands")
    \o <<P(",")>> \o EmptyArr("business_categories") \o <<P("}")>>

AgenticText ==
  <<P("{")>> \o Pair("object", "ai_search") \o <<P(",")>> \o Pair("query", "q")
    \o <<P(",")>> \o Pair("message", "Found 3 shops") \o <<P("}")>>

\* An agentic answer with a key the schema does not list.
AgenticExtraText ==
  SubSeq(AgenticText, 1, Len(AgenticText) - 1)
    \o <<P(","), S("extra"), P(":"), N("1"), P("}")>>

\* An object whose literal tag is wrong.
WrongTagText == <<P("{")>> \o Pair("object", "area") \o <<P("}")>>

ProseText == <<W("Sorry"), SP, W("no"), SP, W("results")>>

Fenced(tag, body) ==
  <<FENCE>> \o (IF tag = "" THEN << >> ELSE <<W(tag)>>) \o <<NL>> \o body
    \o <<NL, FENCE>>

StructuredTexts ==
  {<< >>, LegacyEmptyText, AgenticExtraText, WrongTagText, ProseText,
   Fenced("json", LegacyEmptyText), Fenced("javascript", AgenticText)}

PlainTexts == {<< >>, <<W("Hello")>>}

\* ---------------------------------------------------- extraction on its own
\* JSON.stringify: the tokens of a value, the keys of an object in one fixed
\* order, no white space.
RECURSIVE Serialize(_)
RECURSIVE SerializeMembers(_, _)
RECURSIVE SerializeElements(_)

Serialize(v) ==
  IF v.t = "str" THEN <<S(v.s)>>
  ELSE IF v.t = "num" THEN <<N(v.n)>>
  ELSE IF v.t = "bool" THEN <<W(IF v.b THEN "true" ELSE "false")>>
  ELSE IF v.t = "null" THEN <<W("null")>>
  ELSE IF v.t = "arr" THEN <<P("[")>> \o SerializeElements(v.a) \o <<P("]")>>
  ELSE <<P("{")>> \o SerializeMembers(v.o, DOMAIN v.o) \o <<P("}")>>

SerializeMembers(o, keys) ==
  IF keys = {} THEN << >>
  ELSE LET key == CHOOSE x \in keys : TRUE
           rest == keys \ {key}
       IN <<S(key), P(":")>> \o Serialize(o[key])
            \o (IF rest = {} THEN << >> ELSE <<P(",")>> \o SerializeMembers(o, rest))

SerializeElements(a) ==
  IF a = << >> THEN << >>
  ELSE Serialize(a[1])
         \o (IF Len(a) = 1 THEN << >> ELSE <<P(",")>> \o SerializeElements(Tail(a)))

\* Values the generative service may answer with.
LegacyEmptyValue ==
  JObj([object |-> JStr("ai_search"), areas |-> JArr(<< >>),
        geographies |-> JArr(<< >>), brands |-> JArr(<< >>),
        business_categories |-> JArr(<< >>)])

BrandValue ==
  JObj([key |-> JStr("acme"), name |-> JStr("Acme"), object |-> JStr("brand")])

LegacyBrandValue ==
  [LegacyEmptyValue EXCEPT !.o.brands = JArr(<<BrandValue>>)]

\* A brand without its name.
LegacyBadBrandValue ==
  [LegacyEmptyValue EXCEPT !.o.brands =
     JArr(<<JObj([key |-> JStr("acme"), object |-> JStr("brand")])>>)]

AgenticValue ==
  JObj([object |-> JStr("ai_search"), query |-> JStr("q"),
        message |-> JStr("Found 3 shops")])

AgenticExtraValue ==
  JObj([object |-> JStr("ai_search"), query |-> JStr("q"),
        message |-> JStr("Found 3 shops"), latitude |-> JNum("1"),
        extra |-> JBool(TRUE)])

\* latitude must be a number.
AgenticBadValue ==
  JObj([object |-> JStr("ai_search"), query |-> JStr("q"),
        message |-> JStr("m"), latitude |-> JStr("north")])

JsonValues ==
  {LegacyEmptyValue, LegacyBrandValue, LegacyBadBrandValue, AgenticValue,
   AgenticExtraValue, AgenticBadValue, JObj(NoFields), JArr(<< >>), JNull,
   JStr("ai_search")}

\* The language tags of a code block: none, json, another language.
FenceTags == {"", "json", "javascript"}

\* What a code block may hold: a serialized value, one laid out over lines,
\* or no JSON at all.
FenceBodies ==
  {Serialize(v) : v \in JsonValues}
    \cup {<<P("{"), NL, SP>> \o Pair("object", "ai_search") \o <<NL, P("}")>>,
          ProseText}

Padded(text) == <<NL>> \o text \o <<SP, NL>>

ExtractTexts ==
  FenceBodies
    \cup {Fenced(tag, body) : tag \in FenceTags, body \in FenceBodies}
    \cup {Padded(Fenced(tag, LegacyEmptyText)) : tag \in FenceTags}
    \cup {<< >>}

\* The inner try block of searchWithStructuredOutput, by itself: one final
\* text and one schema in, the value or the error out.
ExtractInit ==
  /\ variant \in Variants
  /\ endpoint = "valid"
  /\ mcpClient = Null
  /\ fallbackMode = FALSE
  /\ created = 0
  /\ closeCalls = [h \in Handles |-> 0]
  /\ lastLifecycle = "none"
  /\ calls = 0
  /\ task = [t \in Tasks |-> IdleTask]
  /\ last = IdleTask
  /\ xin \in [text : ExtractTexts, schema : SchemaNames \cup {"lenient"}]
  /\ xout = NoOutcome
  /\ request = NoRequest
  /\ hpc = "none"
  /\ seen = << >>
  /\ response = << >>
  /\ server = NoServer

ExtractApply ==
  /\ xout = NoOutcome
  /\ xout' = Extract(xin.text, SchemaOf(xin.schema))
  /\ UNCHANGED <<variant, endpoint, mcpClient, fallbackMode, created, closeCalls,
                 lastLifecycle, calls, task, last, xin, request, hpc, seen,
                 response, server>>

ExtractNext == ExtractApply

ExtractSpec == ExtractInit /\ [][ExtractNext]_vars

\* --------------------------------------------------------------- searches
SearchOps == {"search", "searchWithStreaming", "searchWithTypedTools",
              "searchWithStructuredOutput"}

\* The public entry points of the structured search and the schema each one
\* passes on to searchWithStructuredOutput.
StructuredEntries ==
  {<<"searchWithAgenticFormat", "agentic">>,
   <<"searchWithLegacyFormat", "legacy">>}
  \cup {<<e, z>> : e \in {"searchWithCustomSchema", "searchWithStructuredOutput"},
                   z \in SchemaNames}

ListOutcomes == {"ok", "fail"}

\* result.text || "No response received"
NoResponseText == <<W("No"), SP, W("response"), SP, W("received")>>

\* A lookup that forgets the fallback flag.
ToolsGateIgnoringFlag == mcpClient # Null

\* The condition under which a search asks the provider for its tools: the
\* fallback-capable client tests !this.fallbackMode && this.mcpClient, the
\* strict client has already raised when it holds no handle.
ToolsGate ==
  IF variant = "fallback" THEN ~fallbackMode /\ mcpClient # Null
  ELSE mcpClient # Null

\* The condition under which onFinish of a streaming run closes the handle.
FinishGate ==
  IF variant = "fallback" THEN ~fallbackMode /\ mcpClient # Null
  ELSE mcpClient # Null

\* The system message of a run: searchWithTypedTools has a fixed one, the
\* other searches of the fallback-capable client choose by this.fallbackMode.
SystemMessage(rec) ==
  [prompt |->
     IF rec.op = "searchWithTypedTools" /\ rec.stage = "direct"
     THEN "typedTools"
     ELSE IF variant = "fallback" /\ fallbackMode THEN "knowledgeOnly"
     ELSE "toolAware",
   json |-> rec.op = "searchWithStructuredOutput"]

\* generateText / streamText is called with the tool set found.
StartRun(rec) ==
  [rec EXCEPT !.sys = SystemMessage(rec), !.pc = "awaitGen", !.runs = @ + 1]

\* A catch block that swallows the error and answers with the default text.
RethrowSwallowed(rec, e) ==
  Finish([rec EXCEPT !.val = [k |-> "text", text |-> NoResponseText]],
         "returned", "none", mcpClient, fallbackMode)

\* A catch block that logs and rethrows: the call ends by raising e.
Rethrow(rec, e) == Finish(rec, "raised", e, mcpClient, fallbackMode)

\* A strict client whose searches do not test the handle.
NotConnectedUntested == FALSE

\* if (!this.mcpClient) throw new Error("MCP client not connected. ...") at
\* the head of every search of the strict client.
NotConnected == variant = "strict" /\ mcpClient = Null

\* The body of search() (and the same opening of searchWithStreaming and
\* searchWithStructuredOutput) up to its first await.
EnterSearch(rec) ==
  IF NotConnected
  THEN Rethrow(rec, "NotConnected")
  ELSE IF ToolsGate
       THEN [rec EXCEPT !.pc = "awaitTools", !.h = mcpClient, !.listed = @ + 1]
       ELSE StartRun([rec EXCEPT !.tools = "empty"])

\* searchWithTypedTools up to its first await: the fallback-capable client
\* delegates to search() when in fallback mode or without a handle.
EnterTyped(rec) ==
  IF NotConnected
  THEN Rethrow(rec, "NotConnected")
  ELSE IF variant = "fallback" /\ (fallbackMode \/ mcpClient = Null)
       THEN EnterSearch([rec EXCEPT !.stage = "delegated"])
       ELSE [rec EXCEPT !.pc = "awaitTools", !.h = mcpClient, !.listed = @ + 1]

\* A searchWithTypedTools whose catch block rethrows like the others.
RaiseWithoutFallback(rec, e) == Rethrow(rec, e)

\* An error inside a search: the catch block of the fallback-capable
\* searchWithTypedTools calls search(query) once more; every other catch
\* block rethrows.
Raise(rec, e) ==
  IF /\ rec.op = "searchWithTypedTools"
     /\ variant = "fallback"
     /\ rec.stage # "retry"
  THEN EnterSearch([rec EXCEPT !.stage = "retry", !.tools = "none",
                               !.sys = IdleTask.sys])
  ELSE Rethrow(rec, e)

SearchCall(t) ==
  /\ Free(t)
  /\ calls' = calls + 1
  /\ \E o \in {"search", "searchWithStreaming"} :
       LET e == EnterSearch([Begin(t, o) EXCEPT !.stage = "direct"]) IN
       /\ Step(t, e)
  /\ UNCHANGED aside
  /\ UNCHANGED <<variant, endpoint, mcpClient, fallbackMode, created, closeCalls,
                 lastLifecycle>>

TypedCall(t) ==
  /\ Free(t)
  /\ calls' = calls + 1
  /\ LET e == EnterTyped([Begin(t, "searchWithTypedTools") EXCEPT
                            !.stage = "direct"]) IN
     /\ Step(t, e)
  /\ UNCHANGED aside
  /\ UNCHANGED <<variant, endpoint, mcpClient, fallbackMode, created, closeCalls,
                 lastLifecycle>>

\* A structured search starts through entry point en.
StructuredEnter(t, en) ==
  LET e == EnterSearch([Begin(t, "searchWithStructuredOutput") EXCEPT
                          !.stage = "direct", !.schema = en[2]]) IN
  Step(t, e)

StructuredCall(t) ==
  /\ Free(t)
  /\ calls' = calls + 1
  /\ \E en \in StructuredEntries : StructuredEnter(t, en)
  /\ UNCHANGED aside
  /\ UNCHANGED <<variant, endpoint, mcpClient, fallbackMode, created, closeCalls,
                 lastLifecycle>>

\* this.mcpClient.tools() settles.
ToolsSettle(t) ==
  /\ task[t].pc = "awaitTools"
  /\ \E o \in ListOutcomes :
       LET rec == [task[t] EXCEPT !.ext = IF o = "ok" THEN "listOk" ELSE "listFail"]
           e == IF o = "ok"
                THEN StartRun([rec EXCEPT !.tools =
                       IF rec.op = "searchWithTypedTools" /\ rec.stage = "direct"
                       THEN "typed" ELSE "advertised"])
                ELSE Raise(rec, "ListToolsFailed")
       IN Step(t, e)
  /\ UNCHANGED aside
  /\ UNCHANGED <<variant, endpoint, mcpClient, fallbackMode, created, closeCalls,
                 lastLifecycle, calls>>

TextsFor(rec) ==
  IF rec.op = "searchWithStructuredOutput" THEN StructuredTexts ELSE PlainTexts

\* Extraction failed with outcome x and the method asks the generative service
\* once more.
ExtractionFailedRetrying(rec, x) ==
  IF rec.runs < 2 THEN StartRun(rec)
  ELSE Rethrow([rec EXCEPT !.errText = x.errText], x.err)

\* Extraction failed with outcome x: the inner catch block throws the
\* "Invalid JSON response" error, the outer one logs it and rethrows.
ExtractionFailed(rec, x) ==
  Rethrow([rec EXCEPT !.errText = x.errText], x.err)

\* The run has its final text: what the rest of the method does with it.
\* close is the handle onFinish calls close() on (Null: none).
Complete(rec, text) ==
  IF rec.op = "searchWithStructuredOutput"
  THEN LET x == Extract(text, SchemaOf(rec.schema)) IN
       IF x.ok
       THEN [rec |-> Finish([rec EXCEPT !.val = [k |-> "json", json |-> x.val]],
                            "returned", "none", mcpClient, fallbackMode),
             close |-> Null]
       ELSE [rec |-> ExtractionFailed(rec, x), close |-> Null]
  ELSE IF rec.op = "searchWithStreaming"
       THEN IF FinishGate
            THEN [rec |-> [rec EXCEPT !.pc = "awaitFinishClose", !.h = mcpClient,
                                      !.closes = @ + 1],
                  close |-> mcpClient]
            ELSE [rec |-> Finish([rec EXCEPT !.val = [k |-> "void"]],
                                 "returned", "none", mcpClient, fallbackMode),
                  close |-> Null]
       ELSE [rec |-> Finish([rec EXCEPT !.val =
                        [k |-> "text",
                         text |-> IF text = << >> THEN NoResponseText ELSE text]],
                        "returned", "none", mcpClient, fallbackMode),
             close |-> Null]

\* await generateText(...) rejects: the generative service failed in one of
\* the rounds of the run.
GenFail(t) ==
  /\ task[t].pc = "awaitGen"
  /\ Step(t, Raise([task[t] EXCEPT !.ext = "genFail"], "GenerativeServiceFailed"))
  /\ UNCHANGED aside
  /\ UNCHANGED <<variant, endpoint, mcpClient, fallbackMode, created, closeCalls,
                 lastLifecycle, calls>>

\* await generateText(...) resolves, by a final answer or by the step budget
\* running out; result.text is the text of the last round.
GenFinal(t) ==
  /\ task[t].pc = "awaitGen"
  /\ \E text \in TextsFor(task[t]) :
       LET c == Complete([task[t] EXCEPT !.ext = "final", !.text = text], text) IN
       /\ Step(t, c.rec)
       /\ closeCalls' = IF c.close = Null THEN closeCalls
                        ELSE [closeCalls EXCEPT ![c.close] = @ + 1]
  /\ UNCHANGED aside
  /\ UNCHANGED <<variant, endpoint, mcpClient, fallbackMode, created, lastLifecycle,
                 calls>>

\* close() called by onFinish settles: the handle is cleared after a close
\* that succeeded.  How a rejected onFinish ends the stream is up to the
\* streaming library.
StreamCloseSettle(t) ==
  /\ task[t].op = "searchWithStreaming"
  /\ task[t].pc = "awaitFinishClose"
  /\ \E o \in CloseOutcomes, r \in {"returned", "raised"} :
       /\ o = "ok" => r = "returned"
       /\ mcpClient' = IF o = "ok" THEN Null ELSE mcpClient
       /\ Step(t, Finish([task[t] EXCEPT
                             !.ext = IF o = "ok" THEN "closeOk" ELSE "closeFail",
                             !.val = [k |-> "void"]],
                          r, IF r = "raised" THEN "CloseFailed" ELSE "none",
                          IF o = "ok" THEN Null ELSE mcpClient, fallbackMode))
  /\ UNCHANGED aside
  /\ UNCHANGED <<variant, endpoint, fallbackMode, created, closeCalls, lastLifecycle,
                 calls>>

\* ------------------------------------------------------------------- spec
Next ==
  \/ \E t \in Tasks : ConnectCall(t)
  \/ \E t \in Tasks : ConnectSettle(t)
  \/ \E t \in Tasks : DisconnectCall(t)
  \/ \E t \in Tasks : DisconnectSettle(t)
  \/ \E t \in Tasks : SearchCall(t)
  \/ \E t \in Tasks : TypedCall(t)
  \/ \E t \in Tasks : StructuredCall(t)
  \/ \E t \in Tasks : ToolsSettle(t)
  \/ \E t \in Tasks : GenFail(t)
  \/ \E t \in Tasks : GenFinal(t)
  \/ \E t \in Tasks : StreamCloseSettle(t)

Spec == Init /\ [][Next]_vars

\* -------------------------------------------------------------- deadlines
\* A caller's deadline for search call t passes while the call is in flight.
\* No search method takes a deadline or an abort signal and none is handed to
\* generateText / streamText, so nothing in the client reacts: the call goes
\* on as before.
DeadlinePasses(t) ==
  /\ task[t].op \in SearchOps
  /\ task[t].pc # "idle"
  /\ ~task[t].late
  /\ task' = [task EXCEPT ![t].late = TRUE]
  /\ last' = IdleTask
  /\ UNCHANGED aside
  /\ UNCHANGED <<variant, endpoint, mcpClient, fallbackMode, created, closeCalls,
                 lastLifecycle, calls>>

DeadlineNext ==
  \/ Next
  \/ \E t \in Tasks : DeadlinePasses(t)

DeadlineSpec == Init /\ [][DeadlineNext]_vars

\* ----------------------------------------------------------- HTTP handler
\* handler(req) of the server: one request, served with a client of its own.
SearchPath == "/atlas/v1/ai_searches"
Methods == {"GET", "POST"}
Pathnames == {SearchPath, "/"}

\* url.searchParams.get("q"): null when the URL has no q.
QueryParams ==
  {[present |-> FALSE, value |-> ""], [present |-> TRUE, value |-> ""],
   [present |-> TRUE, value |-> "coffee"], [present |-> TRUE, value |-> " "]}

Requests == [method : Methods, pathname : Pathnames, q : QueryParams]

Route(req) == req.pathname = SearchPath /\ req.method = "GET"

BlankMessage == "'q' value cannot be blank"

\* !query
Blank(q) == ~q.present \/ q.value = ""

\* QuerySchema.safeParse({ q: query }) with q: z.string().min(1, message)
QuerySchemaSafeParse(value) ==
  IF value = "" THEN [success |-> FALSE, message |-> BlankMessage]
  ELSE [success |-> TRUE, message |-> ""]

\* new Response(body, { status }); returned tells whether handler() has
\* returned it.
Resp(status, body) == [status |-> status, body |-> body, returned |-> FALSE]

ErrorBody(code, message) ==
  Serialize(JObj([error |-> JObj([code |-> JStr(code),
                                   message |-> JStr(message)])]))

\* A validation failure answered as an internal error.
InvalidParamsAsInternal(message) == Resp(500, ErrorBody("internal_error", message))

InvalidParams(message) == Resp(400, ErrorBody("invalid_params", message))

InternalError ==
  Resp(500, ErrorBody("internal_error",
                      "An internal error occurred while processing the search"))

NotFound == Resp(404, <<W("Not"), SP, W("Found")>>)

emptyResult == LegacyEmptyValue

\* A search failure passed on to the outer catch block.
SearchFailedUnmasked == InternalError

\* The inner catch block: the response for a search that raised.
SearchFailed == Resp(200, Serialize(emptyResult))

\* return r
Return(r) ==
  /\ response' = Append(response, [r EXCEPT !.returned = TRUE])
  /\ hpc' = "done"

\* How an awaited client call ended, as handler() sees it.
Outcome(rec) == [op |-> rec.op, ext |-> rec.ext, ret |-> rec.ret]

HandlerInit ==
  /\ variant \in Variants
  /\ endpoint \in Endpoints
  /\ mcpClient = Null
  /\ fallbackMode = FALSE
  /\ created = 0
  /\ closeCalls = [h \in Handles |-> 0]
  /\ lastLifecycle = "none"
  /\ calls = 0
  /\ task = [t \in Tasks |-> IdleTask]
  /\ last = IdleTask
  /\ xin = NoInput
  /\ xout = NoOutcome
  /\ request \in Requests
  /\ hpc = "start"
  /\ seen = << >>
  /\ response = << >>
  /\ server = NoServer

\* handler() from its start to new HermesClient(): routing and validation.
HandlerEnter ==
  /\ hpc = "start"
  /\ IF ~Route(request) THEN Return(NotFound)
     ELSE IF Blank(request.q) THEN Return(InvalidParams(BlankMessage))
     ELSE LET validationResult == QuerySchemaSafeParse(request.q.value) IN
          IF ~validationResult.success
          THEN Return(InvalidParams(validationResult.message))
          ELSE /\ hpc' = "connect"
               /\ UNCHANGED response
  /\ UNCHANGED <<variant, endpoint, mcpClient, fallbackMode, created, closeCalls,
                 lastLifecycle, calls, task, last, xin, xout, request, seen,
                 server>>

\* await client.connect()
HandlerConnect == hpc = "connect" /\ calls = 0 /\ ConnectCall(1)
HandlerConnectSettle == hpc = "connect" /\ ConnectSettle(1)

\* connect() has ended: on to the search, or to the outer catch block.
HandlerAfterConnect ==
  /\ hpc = "connect"
  /\ last.op = "connect"
  /\ seen' = Append(seen, Outcome(last))
  /\ IF last.ret = "raised" THEN Return(InternalError)
     ELSE /\ hpc' = "search"
          /\ UNCHANGED response
  /\ UNCHANGED <<variant, endpoint, mcpClient, fallbackMode, created, closeCalls,
                 lastLifecycle, calls, task, last, xin, xout, request,
                 server>>

\* await client.searchWithCustomSchema(query, LegacyAISearchResponseSchema)
HandlerSearch ==
  /\ hpc = "search"
  /\ calls = 1
  /\ Free(1)
  /\ calls' = calls + 1
  /\ StructuredEnter(1, <<"searchWithCustomSchema", "legacy">>)
  /\ UNCHANGED aside
  /\ UNCHANGED <<variant, endpoint, mcpClient, fallbackMode, created, closeCalls,
                 lastLifecycle>>

HandlerToolsSettle == hpc = "search" /\ ToolsSettle(1)
HandlerGenFail == hpc = "search" /\ GenFail(1)
HandlerGenFinal == hpc = "search" /\ GenFinal(1)

\* A handler whose search is followed by no finally block: the response is
\* returned at once.
LeaveTryWithoutFinally(r) == Return(r)

\* return new Response(...) inside try / catch with a finally block: the
\* response waits until the finally block has run.
LeaveTry(r) ==
  /\ response' = Append(response, r)
  /\ hpc' = "finally"

\* The search has ended: the inner try block builds the response of the
\* result, the inner catch block that of a failure; finally comes next.
HandlerAfterSearch ==
  /\ hpc = "search"
  /\ last.op = "searchWithStructuredOutput"
  /\ seen' = Append(seen, Outcome(last))
  /\ LeaveTry(IF last.ret = "returned"
              THEN Resp(200, Serialize(last.val.json))
              ELSE SearchFailed)
  /\ UNCHANGED <<variant, endpoint, mcpClient, fallbackMode, created, closeCalls,
                 lastLifecycle, calls, task, last, xin, xout, request,
                 server>>

\* finally { await client.disconnect() }
HandlerDisconnect == hpc = "finally" /\ calls = 2 /\ DisconnectCall(1)
HandlerDisconnectSettle == hpc = "finally" /\ DisconnectSettle(1)

\* disconnect() has ended: the response built before finally is returned; had
\* disconnect() raised, the outer catch block would answer instead.
HandlerAfterDisconnect ==
  /\ hpc = "finally"
  /\ last.op = "disconnect"
  /\ seen' = Append(seen, Outcome(last))
  /\ IF last.ret = "returned"
     THEN /\ response' = [response EXCEPT ![Len(response)].returned = TRUE]
          /\ hpc' = "done"
     ELSE Return(InternalError)
  /\ UNCHANGED <<variant, endpoint, mcpClient, fallbackMode, created, closeCalls,
                 lastLifecycle, calls, task, last, xin, xout, request,
                 server>>

HandlerNext ==
  \/ HandlerEnter
  \/ HandlerConnect
  \/ HandlerConnectSettle
  \/ HandlerAfterConnect
  \/ HandlerSearch
  \/ HandlerToolsSettle
  \/ HandlerGenFail
  \/ HandlerGenFinal
  \/ HandlerAfterSearch
  \/ HandlerDisconnect
  \/ HandlerDisconnectSettle
  \/ HandlerAfterDisconnect

HandlerSpec == HandlerInit /\ [][HandlerNext]_vars

\* ------------------------------------------------------------ HTTP server
\* The server calls handler(req) once for every request; the calls in flight
\* take turns at their awaits.  Request r is the r-th call in flight.
others == <<variant, endpoint, mcpClient, fallbackMode, created, closeCalls,
            lastLifecycle, calls, task, last, xin, xout, request, hpc, seen,
            response>>

\* One client kept by the module and used by every call of handler().
ClientOfShared(r) == 1

\* const client = new HermesClient() inside handler(): a client of its own
\* for every call.
ClientOf(r) == r

\* A client as its constructor leaves it.
NewClient == [mcpClient |-> Null, fallbackMode |-> FALSE]

\* handler(req) about to start.
NewCall(req) ==
  [request |-> req, pc |-> "start", h |-> Null, ext |-> << >>,
   response |-> << >>]

\* How an external call of a request ended.
Ext(call, o, text) == [call |-> call, o |-> o, text |-> text]

\* The requests handled at once: GET requests with a q, blank or not, on the
\* search route or off it.
ServerRequests ==
  {req \in Requests : req.method = "GET" /\ req.q.present /\ req.q.value # " "}

ServerInit ==
  /\ variant \in Variants
  /\ endpoint = "valid"
  /\ mcpClient = Null
  /\ fallbackMode = FALSE
  /\ created = 0
  /\ closeCalls = [h \in Handles |-> 0]
  /\ lastLifecycle = "none"
  /\ calls = 0
  /\ task = [t \in Tasks |-> IdleTask]
  /\ last = IdleTask
  /\ xin = NoInput
  /\ xout = NoOutcome
  /\ request = NoRequest
  /\ hpc = "none"
  /\ seen = << >>
  /\ response = << >>
  /\ \E reqs \in [Tasks -> ServerRequests] :
       server = [client |-> [c \in Tasks |-> NewClient],
                 req |-> [r \in Tasks |-> NewCall(reqs[r])],
                 created |-> 0,
                 maker |-> [h \in Handles |-> Null],
                 closer |-> [h \in Handles |-> {}]]

\* return resp, outside the inner try statement or after its finally block.
Answer(rq, resp) ==
  [rq EXCEPT !.response = Append(@, [resp EXCEPT !.returned = TRUE]),
             !.pc = "done"]

\* return resp inside the inner try statement: finally comes first.
Hold(rq, resp) == [rq EXCEPT !.response = Append(@, resp), !.pc = "finally"]

\* The finally block is through: the response held is returned.
Release(rq) ==
  [rq EXCEPT !.response[Len(rq.response)].returned = TRUE, !.pc = "done"]

\* handler() from its start to the await inside client.connect().
ServeEnter(r) ==
  LET rq == server.req[r] IN
  /\ rq.pc = "start"
  /\ server' = [server EXCEPT !.req[r] =
       IF ~Route(rq.request) THEN Answer(rq, NotFound)
       ELSE IF Blank(rq.request.q) THEN Answer(rq, InvalidParams(BlankMessage))
       ELSE LET validationResult == QuerySchemaSafeParse(rq.request.q.value) IN
            IF ~validationResult.success
            THEN Answer(rq, InvalidParams(validationResult.message))
            ELSE [rq EXCEPT !.pc = "awaitSession"]]
  /\ UNCHANGED others

\* createMCPClient settles with outcome o: connect() stores the handle, sets
\* the fallback flag, or raises into the outer catch block of handler().
ServeConnectSettle(r) ==
  LET rq == server.req[r]
      c == ClientOf(r)
      h == server.created + 1
  IN
  /\ rq.pc = "awaitSession"
  /\ \E o \in SessionOutcomes :
       LET seenRq == [rq EXCEPT !.ext = Append(@, Ext("connect", o, << >>))] IN
       server' =
         IF o = "ok"
         THEN [server EXCEPT !.created = h,
                             !.maker[h] = r,
                             !.client[c].mcpClient = h,
                             !.req[r] = [seenRq EXCEPT !.pc = "search"]]
         ELSE IF variant = "fallback"
              THEN [server EXCEPT !.client[c].fallbackMode = TRUE,
                                  !.req[r] = [seenRq EXCEPT !.pc = "search"]]
              ELSE [server EXCEPT !.req[r] = Answer(seenRq, InternalError)]
  /\ UNCHANGED others

\* The test before this.mcpClient.tools() in searchWithStructuredOutput.
ServeToolsGate(cl) ==
  IF variant = "fallback" THEN ~cl.fallbackMode /\ cl.mcpClient # Null
  ELSE cl.mcpClient # Null

\* client.searchWithCustomSchema(query, LegacyAISearchResponseSchema) up to
\* its first await.
ServeSearch(r) ==
  LET rq == server.req[r]
      cl == server.client[ClientOf(r)]
  IN
  /\ rq.pc = "search"
  /\ server' = [server EXCEPT !.req[r] =
       IF variant = "strict" /\ cl.mcpClient = Null
       THEN Hold(rq, SearchFailed)
       ELSE IF ServeToolsGate(cl)
            THEN [rq EXCEPT !.pc = "awaitTools", !.h = cl.mcpClient]
            ELSE [rq EXCEPT !.pc = "awaitGen"]]
  /\ UNCHANGED others

\* this.mcpClient.tools() settles.
ServeToolsSettle(r) ==
  LET rq == server.req[r] IN
  /\ rq.pc = "awaitTools"
  /\ \E o \in ListOutcomes :
       LET seenRq == [rq EXCEPT !.ext = Append(@, Ext("tools", o, << >>)),
                                !.h = Null] IN
       server' = [server EXCEPT !.req[r] =
         IF o = "ok" THEN [seenRq EXCEPT !.pc = "awaitGen"]
         ELSE Hold(seenRq, SearchFailed)]
  /\ UNCHANGED others

\* The response of the inner try statement for a generateText that settled
\* as x: the extracted value, or the empty result of the inner catch block.
SearchResponse(x) ==
  IF x.o = "fail" THEN SearchFailed
  ELSE LET e == Extract(x.text, LegacyAISearchResponseSchema) IN
       IF e.ok THEN Resp(200, Serialize(e.val)) ELSE SearchFailed

\* Final texts of the generative service: none, prose, a legacy response with
\* one brand.
ServerTexts == {<< >>, ProseText, Serialize(LegacyBrandValue)}

\* generateText settles: it rejects, or resolves with a final text.
ServeGenSettle(r) ==
  LET rq == server.req[r] IN
  /\ rq.pc = "awaitGen"
  /\ \E x \in {Ext("generate", "fail", << >>)}
              \cup {Ext("generate", "final", text) : text \in ServerTexts} :
       server' = [server EXCEPT !.req[r] =
         Hold([rq EXCEPT !.ext = Append(@, x)], SearchResponse(x))]
  /\ UNCHANGED others

\* finally { await client.disconnect() } up to await this.mcpClient.close(),
\* or through it when the client holds no handle.
ServeDisconnect(r) ==
  LET rq == server.req[r]
      cl == server.client[ClientOf(r)]
  IN
  /\ rq.pc = "finally"
  /\ server' =
       IF cl.mcpClient # Null
       THEN [server EXCEPT !.closer[cl.mcpClient] = @ \cup {r},
                           !.req[r] = [rq EXCEPT !.pc = "awaitClose",
                                                 !.h = cl.mcpClient]]
       ELSE [server EXCEPT !.req[r] = Release(rq)]
  /\ UNCHANGED others

\* close() settles; disconnect() returns either way and handler() returns the
\* response it held.
ServeCloseSettle(r) ==
  LET rq == server.req[r]
      c == ClientOf(r)
  IN
  /\ rq.pc = "awaitClose"
  /\ \E o \in CloseOutcomes :
       LET d == Release([rq EXCEPT !.ext = Append(@, Ext("close", o, << >>)),
                                   !.h = Null]) IN
       server' =
         IF o = "ok"
         THEN [server EXCEPT !.client[c].mcpClient = Null, !.req[r] = d]
         ELSE [server EXCEPT !.req[r] = d]
  /\ UNCHANGED others

ServerNext ==
  \E r \in Tasks :
    \/ ServeEnter(r)
    \/ ServeConnectSettle(r)
    \/ ServeSearch(r)
    \/ ServeToolsSettle(r)
    \/ ServeGenSettle(r)
    \/ ServeDisconnect(r)
    \/ ServeCloseSettle(r)

ServerSpec == ServerInit /\ [][ServerNext]_vars

\* ----------------------------------------------------------------- claims
\* The calls a formula speaks about: those in flight and the one that ended
\* in the last step.
Records == {task[t] : t \in Tasks} \cup {last}

\* C1: connect() never raises to its caller, whatever the outcome of
\* establishing the session.  (Stated as claimed; the strict client raises.)
C1_ConnectNeverRaises ==
  last.op = "connect" => last.ret = "returned"

\* C2: when connect() fails to establish a session, on return the mode is
\* DEGRADED and no handle is retained, also when a handle was held before.
\* (Stated as claimed; the catch block leaves this.mcpClient as it was.)
C2_FailedConnectClearsHandle ==
  (variant = "fallback" /\ last.op = "connect" /\ last.ext # "ok")
    => (last.retMode = "DEGRADED" /\ last.retHandle = Null)

\* C3: when connect() establishes a session, on return the mode is CONNECTED
\* and the new handle is retained, whatever happened before.  (Stated as
\* claimed; nothing resets the fallback flag.)
C3_SuccessfulConnectIsConnected ==
  (last.op = "connect" /\ last.ext = "ok")
    => (last.retMode = "CONNECTED" /\ last.retHandle = last.h)

\* C4: a search of any kind started while the mode is DEGRADED hands the
\* generative service an empty tool set and makes no tools() call.
C4_DegradedSearchUsesNoTools ==
  \A r \in Records :
    (r.op \in SearchOps /\ r.startMode = "DEGRADED")
      => /\ r.listed = 0
         /\ r.pc # "awaitTools"
         /\ (r.runs > 0 => r.tools = "empty")

\* C4 witness: a search started in DEGRADED mode on a client that still holds
\* a handle has run the generative service and returned.
C4_Witness ==
  /\ last.op \in SearchOps
  /\ last.startMode = "DEGRADED"
  /\ last.retHandle # Null
  /\ last.runs > 0
  /\ last.ret = "returned"

\* C5: the tool lookup at the start of a search never raises, whatever the
\* outcome of tools(), and gives an empty tool set unless CONNECTED.  (Stated
\* as claimed; a rejected tools() ends the search with that error.)
C5_ToolLookupNeverRaises ==
  \A r \in Records :
    r.op \in SearchOps
      => /\ r.err # "ListToolsFailed"
         /\ (r.runs > 0 /\ r.startMode # "CONNECTED") => r.tools = "empty"

\* C6: disconnect() never raises: with no handle, with a close that succeeds
\* and with a close that fails it returns normally.
C6_DisconnectNeverRaises ==
  last.op = "disconnect" => (last.ret = "returned" /\ last.err = "none")

\* C6 witness: a disconnect() whose close() failed has returned.
C6_Witness ==
  /\ last.op = "disconnect"
  /\ last.ext = "fail"
  /\ last.ret = "returned"

\* C7: after disconnect() returns the client retains no handle, whether
\* close() succeeded or failed.  (Stated as claimed; a failed close() skips
\* the assignment that clears the handle.)
C7_DisconnectClearsHandle ==
  (last.op = "disconnect" /\ last.ret = "returned") => last.retHandle = Null

\* C8: disconnect() is idempotent: a disconnect() that follows a disconnect()
\* with no connect() in between issues no close() and leaves the client as it
\* found it.  (Stated as claimed.)
C8_DisconnectIdempotent ==
  \A r \in Records :
    (r.op = "disconnect" /\ r.prev = "disconnect")
      => /\ r.closes = 0
         /\ (r.pc = "done" =>
               (r.retHandle = r.startHandle /\ r.retMode = r.startMode))

\* C9: every value a structured search returns has passed validation against
\* the schema of that call.
C9_ReturnedValueIsValidated ==
  (last.op = "searchWithStructuredOutput" /\ last.ret = "returned")
    => /\ last.val.k = "json"
       /\ ZodAccepts(SchemaOf(last.schema), last.val.json)

\* C9 witness: a structured search against the agentic schema has returned a
\* value.
C9_Witness ==
  /\ last.op = "searchWithStructuredOutput"
  /\ last.ret = "returned"
  /\ last.schema = "agentic"
  /\ last.val.k = "json"

\* C10: when the generative-service call fails during search or
\* searchWithStructuredOutput, the call ends by raising that failure and
\* returns no result.
C10_GenerativeFailureIsRaised ==
  \A r \in Records :
    (r.op \in {"search", "searchWithStructuredOutput"} /\ r.ext = "genFail")
      => /\ r.pc = "done"
         /\ r.ret = "raised"
         /\ r.err = "GenerativeServiceFailed"
         /\ r.val.k = "none"

\* C10 witness: a structured search whose generative-service call failed has
\* ended.
C10_Witness ==
  /\ last.op = "searchWithStructuredOutput"
  /\ last.ext = "genFail"
  /\ last.pc = "done"

\* C13: when the trimmed final text is a code block (an opening fence line
\* with any language tag or none, an interior, a closing fence line), the
\* interior is what gets parsed and validated: extraction succeeds exactly
\* when the interior is JSON that the schema accepts, and yields that value.
C13_FencedBlockIsUnwrapped ==
  \A tag \in FenceTags, body \in FenceBodies :
    (xout # NoOutcome /\ Trim(xin.text) = Fenced(tag, body)) =>
      LET parsed == JSONParse(body)
          z == SchemaOf(xin.schema)
      IN /\ xout.ok = (parsed.ok /\ ZodAccepts(z, parsed.val))
         /\ xout.ok => xout.val = ZodOutput(z, parsed.val)

\* C14: for every JSON value J and schema S, extraction from an opening fence
\* line tagged json, the serialization of J and a closing fence line succeeds
\* if and only if S accepts J, and then yields the validated J.
C14_FenceRoundTrip ==
  \A J \in JsonValues :
    (xout # NoOutcome /\ xin.text = Fenced("json", Serialize(J))) =>
      LET z == SchemaOf(xin.schema)
      IN /\ xout.ok <=> ZodAccepts(z, J)
         /\ xout.ok => xout.val = ZodOutput(z, J)

\* C15: when the final text, after the unwrapping, is not JSON, the structured
\* search raises the parse-failure error, and the error carries the text as
\* the generative service returned it.
C15_ParseFailureCarriesRawText ==
  (/\ last.op = "searchWithStructuredOutput"
   /\ last.ext = "final"
   /\ ~JSONParse(JsonText(ResponseText(last.text))).ok)
  => /\ last.ret = "raised"
     /\ last.err = "InvalidJSONResponse"
     /\ last.errText = last.text

\* A code block that is not JSON inside ended a strict client's search.
C15_Witness ==
  /\ last.op = "searchWithStructuredOutput"
  /\ last.ext = "final"
  /\ variant = "strict"
  /\ last.text = Fenced("javascript", AgenticText)
  /\ last.ret = "raised"

\* C16: when the final text is JSON that the schema rejects, the structured
\* search raises a schema-mismatch error, which is not the parse-failure
\* error ("Invalid JSON response").
C16_SchemaMismatchIsDistinct ==
  (/\ last.op = "searchWithStructuredOutput"
   /\ last.ext = "final"
   /\ JSONParse(JsonText(ResponseText(last.text))).ok
   /\ ~ZodAccepts(SchemaOf(last.schema),
                  JSONParse(JsonText(ResponseText(last.text))).val))
  => /\ last.ret = "raised"
     /\ last.err = "SchemaMismatch"

\* The responses handler() has returned, and the error object of a body.
Sent == {i \in 1..Len(response) : response[i].returned}
ErrorOf(body) == JSONParse(body).val.o.error.o

\* C17: a GET on the search route with a missing or empty q is answered 400
\* with code invalid_params and message "'q' value cannot be blank", and for
\* that request no client is constructed and no method of a client, no
\* tool-provider call and no generative-service call is made.
C17_BlankQueryIsRejectedFirst ==
  (Route(request) /\ Blank(request.q)) =>
    /\ hpc \in {"start", "done"}
    /\ calls = 0
    /\ created = 0
    /\ \A t \in Tasks : task[t].pc = "idle"
    /\ \A h \in Handles : closeCalls[h] = 0
    /\ seen = << >>
    /\ hpc = "done" =>
         /\ Len(response) = 1
         /\ response[1].returned
         /\ response[1].status = 400
         /\ ErrorOf(response[1].body).code = JStr("invalid_params")
         /\ ErrorOf(response[1].body).message = JStr("'q' value cannot be blank")

\* An empty q has been answered.
C17_Witness ==
  /\ Route(request)
  /\ request.q = [present |-> TRUE, value |-> ""]
  /\ hpc = "done"
  /\ Len(response) = 1
  /\ response[1].status = 400

\* C18: on the search route with a non-empty q, when the tool provider is
\* unreachable (connect() could not establish a session) and no
\* generative-service call succeeds, the one response is 200 with the fixed
\* empty legacy payload, never 500.
C18_DegradedBackendIsMasked ==
  (/\ Route(request)
   /\ ~Blank(request.q)
   /\ hpc = "done"
   /\ seen # << >>
   /\ seen[1].op = "connect"
   /\ seen[1].ext # "ok"
   /\ \A i \in 1..Len(seen) : seen[i].ext # "final")
  => /\ Cardinality(Sent) = 1
     /\ \A i \in Sent :
          /\ response[i].status = 200
          /\ JSONParse(response[i].body) = [ok |-> TRUE, val |-> LegacyEmptyValue]

\* C19: every request to the search route gets exactly one response, when
\* handler() ends and not before: 400 for a blank q, 200 when the search
\* returned or raised, 500 with code internal_error otherwise.
C19_OneResponsePerRequest ==
  Route(request) =>
    /\ hpc # "done" => Sent = {}
    /\ hpc = "done" =>
         /\ Cardinality(Sent) = 1
         /\ \A i \in Sent :
              IF Blank(request.q) THEN response[i].status = 400
              ELSE IF \E j \in 1..Len(seen) :
                        seen[j].op = "searchWithStructuredOutput"
                   THEN response[i].status = 200
                   ELSE /\ response[i].status = 500
                        /\ ErrorOf(response[i].body).code = JStr("internal_error")

\* A search that raised has been answered.
C19_Witness ==
  /\ Route(request)
  /\ hpc = "done"
  /\ \E j \in 1..Len(seen) :
       seen[j].op = "searchWithStructuredOutput" /\ seen[j].ret = "raised"
  /\ \E i \in Sent : response[i].status = 200

\* C20: when a searchWithStreaming that found the client connected (it looked
\* the tools up through the handle) has streamed its final text and ends, the
\* finish callback has issued a close and the client holds no handle.
C20_StreamingFinishReleasesHandle ==
  (/\ last.op = "searchWithStreaming"
   /\ last.listed > 0
   /\ last.ext \in {"final", "closeOk", "closeFail"})
  => /\ last.closes > 0
     /\ last.retHandle = Null

\* C21: once connect() or disconnect() calls are under way, however they
\* interleave, every state a search can find the client in is consistent: the
\* mode is CONNECTED exactly when the client holds a handle on which no close
\* has been issued.
C21_ModeMatchesHandle ==
  lastLifecycle # "none" =>
    (currentMode = "CONNECTED"
       <=> (mcpClient # Null /\ closeCalls[mcpClient] = 0))

\* C22: a disconnect() issued while a run is in flight leaves that run alone:
\* it issues no close on the handle behind the ToolSet of a run that is still
\* with the generative service; and once disconnect() has returned (no
\* connect() since), a search that starts asks the provider for no ToolSet.
C22_DisconnectSparesRunsInFlight ==
  /\ \A t \in Tasks :
       (/\ task[t].op \in SearchOps
        /\ task[t].pc = "awaitGen"
        /\ task[t].tools \in {"advertised", "typed"})
       => ~\E d \in Records :
             d.op = "disconnect" /\ d.closes > 0 /\ d.h = task[t].h
  /\ (/\ lastLifecycle = "disconnect"
      /\ \A t \in Tasks : task[t].op \notin {"connect", "disconnect"})
     => EnterSearch([IdleTask EXCEPT !.op = "search"]).pc # "awaitTools"

\* C24: a run whose caller-supplied deadline passes while it is in flight is
\* aborted: it ends by raising and returns no result.  (A run acquires no
\* tool-provider resource of its own that would be left to release.)
C24_LateRunAborts ==
  (last.op \in SearchOps /\ last.late) => last.ret = "raised"

\* C25: whenever a run hands its conversation to the generative service, the
\* system message is the one of the client's mode at that moment: a tool-aware
\* prompt when CONNECTED, the knowledge-only prompt when DEGRADED; and the
\* prompt of a structured-output run tells the model to answer with JSON that
\* matches the schema.
C25_PromptFollowsMode ==
  [][\A t \in Tasks :
       task'[t].runs > task[t].runs =>
         /\ currentMode = "CONNECTED"
              => task'[t].sys.prompt \in {"toolAware", "typedTools"}
         /\ currentMode = "DEGRADED"
              => task'[t].sys.prompt = "knowledgeOnly"
         /\ task'[t].op = "searchWithStructuredOutput" => task'[t].sys.json]_vars

\* C27: extraction never retries: a structured-output run whose final text
\* fails to parse or to validate ends by raising, and the call has made one
\* generative-service call and one tool lookup at most, none after the failure.
C27_ExtractionNeverRetries ==
  /\ \A r \in Records :
       r.op = "searchWithStructuredOutput" => r.runs <= 1 /\ r.listed <= 1
  /\ (/\ last.op = "searchWithStructuredOutput"
      /\ last.ext = "final"
      /\ ~Extract(last.text, SchemaOf(last.schema)).ok)
     => last.ret = "raised" /\ last.err = "InvalidJSONResponse"

C27_Witness ==
  /\ last.op = "searchWithStructuredOutput"
  /\ last.ext = "final"
  /\ JSONParse(JsonText(ResponseText(last.text))).ok
  /\ ~Extract(last.text, SchemaOf(last.schema)).ok
  /\ last.ret = "raised"
  /\ last.runs = 1
  /\ last.listed = 1

\* C28: a run that starts while the client's mode is CONNECTED starts from the
\* settling of a tool lookup its own call issued, with the ToolSet that lookup
\* gave: never without a lookup, never with a ToolSet kept from a run before.
C28_EachRunLooksItsToolsUp ==
  [][\A t \in Tasks :
       (task'[t].runs > task[t].runs /\ currentMode = "CONNECTED")
         => /\ task[t].pc = "awaitTools"
            /\ task'[t].tools \in {"advertised", "typed"}]_vars

\* C29: when the parsed value is an object with a field its schema does not
\* list, extraction fails; it does not succeed with the field kept or dropped.
C29_UnlistedFieldIsRejected ==
  xout # NoOutcome =>
    LET parsed == JSONParse(JsonText(ResponseText(xin.text)))
        z == SchemaOf(xin.schema)
    IN (/\ parsed.ok
        /\ parsed.val.t = "obj"
        /\ (DOMAIN parsed.val.o) \ (DOMAIN z.fields) # {})
       => ~xout.ok

\* C30: completing a search, streaming or not, never takes tool access away:
\* when a search started just before a search call ends would ask the provider
\* for its tools, so would a search started just after it has ended.
C30_SearchKeepsToolAccess ==
  [][(/\ last'.op \in SearchOps
      /\ EnterSearch([IdleTask EXCEPT !.op = "search"]).pc = "awaitTools")
     => (EnterSearch([IdleTask EXCEPT !.op = "search"]).pc = "awaitTools")']_vars

\* C31: a handle the client no longer refers to has had close called on it:
\* no handle created by connect() is dropped unclosed, in particular not the
\* one held when a second connect() succeeds.
C31_NoHandleDroppedUnclosed ==
  \A h \in 1..created : h # mcpClient => closeCalls[h] > 0

\* C32: close is called at most once on any handle, however disconnect()
\* calls and the streaming finish callback interleave.
C32_CloseAtMostOncePerHandle ==
  \A h \in Handles : closeCalls[h] <= 1

\* C33: when connect() returned normally the handler calls disconnect() once,
\* as its third client call, after the search has returned or raised, and no
\* response is returned before disconnect() has ended; when connect() raised
\* the handler makes no further client call and answers 500.
C33_HandlerDisconnectsOnce ==
  /\ \A i \in 1..Len(seen) :
       seen[i].op = "disconnect" =>
         /\ i = 3
         /\ seen[1].op = "connect" /\ seen[1].ret = "returned"
         /\ seen[2].op = "searchWithStructuredOutput"
  /\ (Len(seen) >= 1 /\ seen[1].ret = "returned" /\ Sent # {})
       => Len(seen) = 3 /\ seen[3].op = "disconnect"
  /\ (Len(seen) >= 1 /\ seen[1].ret = "raised")
       => /\ Len(seen) = 1
          /\ calls = 1
          /\ hpc = "done"
          /\ \A i \in Sent : response[i].status = 500

\* A search that raised was followed by disconnect() and then answered.
C33_Witness ==
  /\ hpc = "done"
  /\ Len(seen) = 3
  /\ seen[1].ret = "returned"
  /\ seen[2].ret = "raised"
  /\ seen[3].op = "disconnect"
  /\ closeCalls[1] = 1
  /\ Sent # {}

\* C34: among requests handled at once, every handle is closed by no request
\* but the one whose connect() made it, and the one response a request gets
\* is decided by its own q and by how its own external calls ended: 404 off
\* the route, 400 for a blank q, 500 when its connect() raised, else the result
\* of its own search, after its own tool lookup if its connect() succeeded and
\* with its own close at the end.
C34_RequestsDoNotInterfere ==
  /\ \A h \in Handles : server.closer[h] \subseteq {server.maker[h]}
  /\ \A r \in DOMAIN server.req :
       LET rq == server.req[r]
           e == rq.ext
           n == Len(e)
           resp == rq.response[Len(rq.response)]
           Is(i, call, o) == e[i].call = call /\ e[i].o = o
       IN rq.pc = "done" =>
            /\ Len(rq.response) = 1
            /\ resp.returned
            /\ IF ~Route(rq.request)
               THEN /\ n = 0
                    /\ [resp EXCEPT !.returned = FALSE] = NotFound
               ELSE IF Blank(rq.request.q)
               THEN /\ n = 0
                    /\ [resp EXCEPT !.returned = FALSE] = InvalidParams(BlankMessage)
               ELSE \/ /\ n = 1
                       /\ e[1].call = "connect" /\ e[1].o # "ok"
                       /\ variant = "strict"
                       /\ resp.status = 500
                    \/ /\ n = 2
                       /\ e[1].call = "connect" /\ e[1].o # "ok"
                       /\ variant = "fallback"
                       /\ e[2].call = "generate"
                       /\ [resp EXCEPT !.returned = FALSE] = SearchResponse(e[2])
                    \/ /\ n = 3
                       /\ Is(1, "connect", "ok")
                       /\ Is(2, "tools", "fail")
                       /\ e[3].call = "close"
                       /\ [resp EXCEPT !.returned = FALSE] = SearchFailed
                    \/ /\ n = 4
                       /\ Is(1, "connect", "ok")
                       /\ Is(2, "tools", "ok")
                       /\ e[3].call = "generate"
                       /\ e[4].call = "close"
                       /\ [resp EXCEPT !.returned = FALSE] = SearchResponse(e[3])

\* Two requests were served at once, each through a session of its own: one
\* got the brand its search found, the other the empty result.
C34_Witness ==
  /\ DOMAIN server.req # {}
  /\ \A r \in {1, 2} : server.req[r].pc = "done" /\ Len(server.req[r].ext) = 4
  /\ server.created >= 2
  /\ server.closer[1] # {}
  /\ server.closer[2] # {}
  /\ server.req[1].response[1].body = Serialize(LegacyBrandValue)
  /\ server.req[2].response[1] = [SearchFailed EXCEPT !.returned = TRUE]

\* C35: in the fallback-capable client the fallback flag, once set, stays
\* set: no step of connect(), disconnect() or a search clears it.
C35_FallbackModeIsPermanent ==
  [][(variant = "fallback" /\ fallbackMode) => fallbackMode']_vars

\* A connect() that established a session has returned on a client whose
\* fallback flag was set before, and the flag is still set.
C35_Witness ==
  /\ variant = "fallback"
  /\ last.op = "connect"
  /\ last.ext = "ok"
  /\ last.startMode = "DEGRADED"
  /\ mcpClient = last.h
  /\ fallbackMode

\* C36: in the strict client a search of any kind that starts while the client
\* holds no handle ends at once by raising "MCP client not connected", having
\* made no tool lookup and no generative-service call.
C36_SearchWithoutHandleRaises ==
  [][(/\ variant = "strict"
      /\ mcpClient = Null
      /\ calls' = calls + 1
      /\ \/ last'.op \in SearchOps
         \/ \E t \in Tasks : task'[t] # task[t] /\ task'[t].op \in SearchOps)
     => /\ task' = task
        /\ last'.op \in SearchOps
        /\ last'.ret = "raised"
        /\ last'.err = "NotConnected"
        /\ last'.listed = 0
        /\ last'.runs = 0]_vars

\* A search on a strict client that lost its handle to the finish callback of
\* a streaming search, with no disconnect(), has raised.
C36_Witness ==
  /\ variant = "strict"
  /\ last.op \in SearchOps
  /\ last.err = "NotConnected"
  /\ created = 1
  /\ lastLifecycle = "connect"
  /\ mcpClient = Null

\* C37: in the fallback-capable client a searchWithTypedTools call goes
\* through search() from the start exactly when the client is in fallback
\* mode or holds no handle; it starts two generative-service runs and makes
\* two tool lookups at most; and it never ends by raising from the typed path
\* itself: when it raises, the search() it fell back to raised.
C37_TypedToolsFallBackOnce ==
  /\ [](\A r \in Records :
          (variant = "fallback" /\ r.op = "searchWithTypedTools") =>
            /\ r.runs <= 2
            /\ r.listed <= 2
            /\ r.stage \in {"direct", "delegated", "retry"}
            /\ r.stage = "delegated" => r.runs <= 1
            /\ (r.pc = "done" /\ r.ret = "raised") => r.stage # "direct")
  /\ [][\A t \in Tasks :
          (/\ variant = "fallback"
           /\ task[t].pc = "idle"
           /\ task'[t].op = "searchWithTypedTools")
          => (task'[t].stage = "delegated"
                <=> (fallbackMode \/ mcpClient = Null))]_vars

\* A typed search whose own run failed went through search() once more, which
\* failed as well, and raised.
C37_Witness ==
  /\ variant = "fallback"
  /\ last.op = "searchWithTypedTools"
  /\ last.stage = "retry"
  /\ last.runs = 2
  /\ last.listed = 2
  /\ last.ret = "raised"

\* C38: when the final text is empty, extraction works on the text "{}": it
\* succeeds exactly when the schema accepts the empty object, giving what the
\* schema makes of it, and otherwise the error quotes "{}".
C38_EmptyTextIsEmptyObject ==
  (xout # NoOutcome /\ xin.text = << >>) =>
    LET z == SchemaOf(xin.schema) IN
    /\ xout.ok <=> ZodAccepts(z, JObj(NoFields))
    /\ xout.ok => xout.val = ZodOutput(z, JObj(NoFields))
    /\ ~xout.ok => xout.err = "InvalidJSONResponse" /\ xout.errText = EmptyObjectText

\* An empty final text was rejected by the legacy schema.
C38_Witness ==
  /\ xin.text = << >>
  /\ xin.schema = "legacy"
  /\ xout # NoOutcome
  /\ ~xout.ok
  /\ xout.errText = EmptyObjectText

====
